---- MODULE Spec2Model ----
(***************************************************************************)
(* zenconf: MergedConfig (zenconf/merged_config.py).                       *)
(*                                                                         *)
(* Strings are sequences of one-character strings.  A value is a tagged    *)
(* tuple:                                                                  *)
(*   <<"str", s>>    a string scalar          <<"int", n>>  an int scalar  *)
(*   <<"list", es>>  a list of values         <<"none">>    None           *)
(*   <<"map", es>>   an ordered mapping, es a sequence of <<key, value>>   *)
(*   <<"raise", e>>  the call raised exception e instead of returning      *)
(* Values are immutable here, so deepcopy is the identity on them.         *)
(***************************************************************************)
EXTENDS Naturals, Sequences, FiniteSets, TLC

VARIABLES ctor,         \* the arguments MergedConfig.__init__ was given
          _app_name,    \* self._app_name
          _dict_boundary, \* self._dict_boundary
          _sources,     \* self._sources
          call,         \* the last call: [op, args]
          ret           \* what the last call returned (or raised)

vars == <<ctor, _app_name, _dict_boundary, _sources, call, ret>>

\* ---------------------------------------------------------------- bounds
MaxSources == 2

\* ---------------------------------------------------------------- values
Str(s) == <<"str", s>>
Int(n) == <<"int", n>>
List(es) == <<"list", es>>
Map(es) == <<"map", es>>
None == <<"none">>
TypeError == <<"raise", "TypeError">>
Self == <<"self">>
Pending == <<"pending">>
EmptyDict == Map(<<>>)

isdict(x) == x[1] = "map"
islist(x) == x[1] = "list"
IsRaise(x) == x[1] = "raise"
IsStr(x) == x[1] = "str"

Entries(d) == d[2]
Items(l) == l[2]

\* k in d
HasKey(d, k) == \E i \in 1..Len(Entries(d)) : Entries(d)[i][1] = k

\* d[k]
GetItem(d, k) ==
    LET i == CHOOSE i \in 1..Len(Entries(d)) : Entries(d)[i][1] = k
    IN Entries(d)[i][2]

\* d[k] = v on an ordered mapping: an existing key keeps its position
SetItem(d, k, v) ==
    IF HasKey(d, k)
    THEN Map([i \in 1..Len(Entries(d)) |->
                IF Entries(d)[i][1] = k THEN <<k, v>> ELSE Entries(d)[i]])
    ELSE Map(Append(Entries(d), <<k, v>>))

\* bool(x)
Truthy(x) ==
    CASE x[1] = "str"  -> x[2] # <<>>
      [] x[1] = "int"  -> x[2] # 0
      [] x[1] = "list" -> x[2] # <<>>
      [] x[1] = "map"  -> x[2] # <<>>
      [] OTHER -> FALSE

\* --------------------------------------------------------------- strings
LowerChar(c) ==
    CASE c = "A" -> "a" [] c = "B" -> "b" [] c = "T" -> "t"
      [] c = "X" -> "x" [] OTHER -> c

UpperChar(c) ==
    CASE c = "a" -> "A" [] c = "b" -> "B" [] c = "t" -> "T"
      [] c = "x" -> "X" [] c = "k" -> "K" [] c = "q" -> "Q"
      [] c = "y" -> "Y" [] OTHER -> c

lower(s) == [i \in 1..Len(s) |-> LowerChar(s[i])]
upper(s) == [i \in 1..Len(s) |-> UpperChar(s[i])]

\* s.replace('-', '_')
replace_hyphens(s) == [i \in 1..Len(s) |-> IF s[i] = "-" THEN "_" ELSE s[i]]

\* re.sub('^_+', '', s)
RECURSIVE strip_leading_underscores(_)
strip_leading_underscores(s) ==
    IF s # <<>> /\ Head(s) = "_"
    THEN strip_leading_underscores(Tail(s))
    ELSE s

\* s.startswith(p)
startswith(s, p) == Len(s) >= Len(p) /\ SubSeq(s, 1, Len(p)) = p

\* s.endswith(p)
endswith(s, p) ==
    Len(s) >= Len(p) /\ SubSeq(s, Len(s) - Len(p) + 1, Len(s)) = p

\* the positions at which sep occurs in s
Occurrences(s, sep) ==
    {i \in 1..Len(s) : i + Len(sep) - 1 <= Len(s)
                       /\ SubSeq(s, i, i + Len(sep) - 1) = sep}

Min(S) == CHOOSE x \in S : \A y \in S : x <= y

\* s.split(sep): leftmost, non-overlapping occurrences
RECURSIVE split(_, _)
split(s, sep) ==
    IF Occurrences(s, sep) = {}
    THEN <<s>>
    ELSE LET i == Min(Occurrences(s, sep))
         IN <<SubSeq(s, 1, i - 1)>>
            \o split(SubSeq(s, i + Len(sep), Len(s)), sep)

\* ------------------------------------------------- key normalisation
\* default_key_normalisation_func: lower-case, hyphens to underscores,
\* then leading underscores removed
default_key_normalisation_func(k) ==
    strip_leading_underscores(replace_hyphens(lower(k)))

\* the key functions the code and its tests pass to walk_recursive / add:
\* the default, lambda k: str.lower(k), lambda k: str.upper(k)
KeyFuncs == {"default", "lower", "upper"}

\* f(k) for a string k
ApplyKeyFunc(f, k) ==
    CASE f = "default" -> default_key_normalisation_func(k)
      [] f = "lower"   -> lower(k)
      [] f = "upper"   -> upper(k)

\* f(data) for a scalar: str.lower / str.upper accept only a str
ApplyFuncToScalar(f, data) ==
    IF IsStr(data) THEN Str(ApplyKeyFunc(f, data[2])) ELSE TypeError

\* the first exception among the elements of a sequence of results
FirstRaise(rs) == rs[Min({i \in 1..Len(rs) : IsRaise(rs[i])})]
AnyRaise(rs) == \E i \in 1..Len(rs) : IsRaise(rs[i])

\* funcy.walk_keys(f, d): the mapping of (f(k), v) pairs, built in order
RECURSIVE WalkKeysLoop(_, _, _)
WalkKeysLoop(f, results, es) ==
    IF es = <<>> THEN results
    ELSE WalkKeysLoop(f, SetItem(results, ApplyKeyFunc(f, es[1][1]), es[1][2]),
                      Tail(es))

walk_keys(f, d) == WalkKeysLoop(f, EmptyDict, Entries(d))

\* ------------------------------------------------------ walk_recursive
RECURSIVE walk_recursive(_, _)
RECURSIVE WalkValuesLoop(_, _, _)

\* [walk_recursive(f, d) for d in v]
WalkList(f, v) ==
    LET rs == [i \in 1..Len(v) |-> walk_recursive(f, v[i])]
    IN IF AnyRaise(rs) THEN FirstRaise(rs) ELSE List(rs)

\* for k, v in data.iteritems(): mapping and list values are walked
WalkValuesLoop(f, results, es) ==
    IF es = <<>> THEN results
    ELSE LET k == es[1][1]
             v == es[1][2]
         IN IF isdict(v) \/ islist(v)
            THEN LET r == IF isdict(v) THEN walk_recursive(f, v)
                          ELSE WalkList(f, Items(v))
                 IN IF IsRaise(r) THEN r
                    ELSE WalkValuesLoop(f, SetItem(results, ApplyKeyFunc(f, k), r),
                                        Tail(es))
            ELSE WalkValuesLoop(f, results, Tail(es))

walk_recursive(f, data) ==
    IF islist(data) THEN WalkList(f, Items(data))
    ELSE IF isdict(data)
         THEN WalkValuesLoop(f, walk_keys(f, data), Entries(data))
         ELSE ApplyFuncToScalar(f, data)

\* ---------------------------------------------------------- dict_merge
\* for key in reversed(exploded_k): the nested single-branch mapping,
\* None when every segment is empty
\* a variant that keeps the empty segments
SkipSegment_Never(key) == FALSE

\* if not key: continue
SkipSegment(key) == key = <<>>

RECURSIVE BuildNewDict(_, _, _, _)
BuildNewDict(exploded_k, i, v, new_dict) ==
    IF i = 0 THEN new_dict
    ELSE IF SkipSegment(exploded_k[i])
         THEN BuildNewDict(exploded_k, i - 1, v, new_dict)
         ELSE IF ~Truthy(new_dict)
              THEN BuildNewDict(exploded_k, i - 1, v, Map(<< <<exploded_k[i], v>> >>))
              ELSE BuildNewDict(exploded_k, i - 1, v,
                                Map(<< <<exploded_k[i], new_dict>> >>))

\* a variant that never merges into an existing mapping
MergesIntoExisting_Never(result, k) == FALSE

\* elif k in result and isinstance(result[k], dict)
MergesIntoExisting(result, k) == HasKey(result, k) /\ isdict(GetItem(result, k))

RECURSIVE dict_merge(_, _, _)
RECURSIVE MergeLoop(_, _, _)

\* for k, v in b.iteritems(), on the accumulating result (a mapping, or
\* None once a key of delimiters only has been merged)
MergeLoop(result, es, dict_boundary) ==
    IF es = <<>> THEN result
    ELSE LET k == es[1][1]
             v == es[1][2]
             exploded_k == split(k, dict_boundary)
         IN IF Len(exploded_k) > 1
            THEN LET new_dict == BuildNewDict(exploded_k, Len(exploded_k), v, None)
                     r == dict_merge(result, new_dict, dict_boundary)
                 IN IF IsRaise(r) THEN r
                    ELSE MergeLoop(r, Tail(es), dict_boundary)
            ELSE IF ~isdict(result)
                 THEN TypeError          \* k in None
                 ELSE IF MergesIntoExisting(result, k)
                      THEN LET r == dict_merge(GetItem(result, k), v, dict_boundary)
                           IN IF IsRaise(r) THEN r
                              ELSE MergeLoop(SetItem(result, k, r), Tail(es),
                                             dict_boundary)
                      ELSE MergeLoop(SetItem(result, k, v), Tail(es),
                                     dict_boundary)

dict_merge(a, b, dict_boundary) ==
    IF ~isdict(b) THEN b
    ELSE MergeLoop(a, Entries(b), dict_boundary)

\* -------------------------------------------------------- MergedConfig
\* a variant of __init__ that appends the underscore unconditionally
InitAppName_AlwaysAppend(app_name) == lower(app_name \o <<"_">>)

\* __init__: one underscore appended unless the name ends with one,
\* then lower-cased
InitAppName(app_name) ==
    lower(IF ~endswith(app_name, <<"_">>) THEN app_name \o <<"_">> ELSE app_name)

\* re.sub(re.compile("^%s" % self._app_name), '', k): the app name is the
\* pattern, in which "." matches any character
RegexMatchesAtStart(pattern, k) ==
    /\ Len(k) >= Len(pattern)
    /\ \A i \in 1..Len(pattern) : pattern[i] = "." \/ pattern[i] = k[i]

StripAppName(pattern, k) ==
    IF RegexMatchesAtStart(pattern, k)
    THEN SubSeq(k, Len(pattern) + 1, Len(k))
    ELSE k

\* a variant of the filter that tests the end of the key
select_keys_endswith(prefix, config) ==
    Map(SelectSeq(Entries(config), LAMBDA e : endswith(e[1], prefix)))

\* funcy.select_keys(lambda k: k.startswith(self._app_name), config)
select_keys_startswith(prefix, config) ==
    Map(SelectSeq(Entries(config), LAMBDA e : startswith(e[1], prefix)))

\* funcy.compact(config): the entries with a truthy value
compact(config) == Map(SelectSeq(Entries(config), LAMBDA e : Truthy(e[2])))

\* funcy.walk_keys(lambda k: re.sub(strip_app_name_regex, '', k), config)
RECURSIVE StripKeysLoop(_, _, _)
StripKeysLoop(pattern, results, es) ==
    IF es = <<>> THEN results
    ELSE StripKeysLoop(pattern,
                       SetItem(results, StripAppName(pattern, es[1][1]), es[1][2]),
                       Tail(es))

FilterByAppName(prefix, config) == compact(select_keys_startswith(prefix, config))

StripKeys(prefix, config) == StripKeysLoop(prefix, EmptyDict, Entries(config))

\* add, up to the append: the mapping that is stored, or the exception
NormalisedConfig(config, strip_app_name, filter_by_app_name, f, prefix) ==
    LET walked == walk_recursive(f, config)
    IN IF IsRaise(walked) THEN walked
       ELSE LET filtered == IF filter_by_app_name
                            THEN FilterByAppName(prefix, walked)
                            ELSE walked
            IN IF strip_app_name THEN StripKeys(prefix, filtered) ELSE filtered

\* a variant of the append that inserts at the front
SourcesAfterAdd_Prepend(sources, config) == <<config>> \o sources

\* self._sources.append(config)
SourcesAfterAdd(sources, config) == Append(sources, config)

\* get_merged_config: the fold over the sources, from an empty OrderedDict
RECURSIVE MergeSources(_, _, _)
MergeSources(merged_config, sources, dict_boundary) ==
    IF sources = <<>> THEN merged_config
    ELSE LET r == dict_merge(merged_config, Head(sources), dict_boundary)
         IN IF IsRaise(r) THEN r
            ELSE MergeSources(r, Tail(sources), dict_boundary)

MergedResult(sources, dict_boundary) ==
    MergeSources(EmptyDict, sources, dict_boundary)

\* ------------------------------------------------------------- inputs
\* MergedConfig(app_name, dict_boundary) as the callers construct it
CtorArgs ==
    { [app_name |-> <<"T">>,           dict_boundary |-> <<"_", "_">>],
      [app_name |-> <<"t", "_">>,      dict_boundary |-> <<"_", "_">>],
      [app_name |-> <<"t", "_", "_">>, dict_boundary |-> <<"_", "_">>],
      [app_name |-> <<"t", ".">>,      dict_boundary |-> <<"_", "_">>],
      [app_name |-> <<"T">>,           dict_boundary |-> <<".">>] }

\* {'a': {'b': 1, 'x': 1}}
cDefaults ==
    Map(<< << <<"a">>, Map(<< << <<"b">>, Int(1) >>, << <<"x">>, Int(1) >> >>) >> >>)

\* {'T_A__B': 2, 't_k': 0, 'y': 3}
cEnv ==
    Map(<< << <<"T", "_", "A", "_", "_", "B">>, Int(2) >>,
           << <<"t", "_", "k">>, Int(0) >>,
           << <<"y">>, Int(3) >> >>)

\* {'--a--b': 3}
cCli == Map(<< << <<"-", "-", "a", "-", "-", "b">>, Int(3) >> >>)

\* {'T___': 1, 'T__X': 1}
cUnderscores ==
    Map(<< << <<"T", "_", "_", "_">>, Int(1) >>,
           << <<"T", "_", "_", "X">>, Int(1) >> >>)

\* {'l': [1]}
cIntList == Map(<< << <<"l">>, List(<< Int(1) >>) >> >>)

\* {'tb_k': 1, 't_t_k': 2}
cPrefixLike ==
    Map(<< << <<"t", "b", "_", "k">>, Int(1) >>,
           << <<"t", "_", "t", "_", "k">>, Int(2) >> >>)

\* {'a.b': 4}
cDotted ==
    Map(<< << <<"a", ".", "b">>, Int(4) >> >>)

\* {'a': 1, 'q': {'__': 1, 'x': 1}}
cNestedDelims ==
    Map(<< << <<"a">>, Int(1) >>,
           << <<"q">>, Map(<< << <<"_", "_">>, Int(1) >>,
                              << <<"x">>, Int(1) >> >>) >> >>)

Configs == {cDefaults, cEnv, cCli, cUnderscores, cIntList, cPrefixLike, cDotted}

\* add(config, strip_app_name, filter_by_app_name, key_normalisation_func)
AddInputs ==
    (Configs \X BOOLEAN \X BOOLEAN \X {"default"})
    \cup {<<cNestedDelims, FALSE, FALSE, "lower">>,
          <<cDefaults, FALSE, FALSE, "upper">>}

\* ------------------------------------------------------------ actions
\* the registry right after MergedConfig(app_name, dict_boundary)
Init ==
    /\ ctor \in CtorArgs
    /\ _app_name = InitAppName(ctor.app_name)
    /\ _dict_boundary = ctor.dict_boundary
    /\ _sources = <<>>
    /\ call = [op |-> "__init__", args |-> <<>>]
    /\ ret = None

\* add(config, strip_app_name, filter_by_app_name, key_normalisation_func)
add(config, strip_app_name, filter_by_app_name, f) ==
    /\ Len(_sources) < MaxSources
    /\ LET stored == NormalisedConfig(config, strip_app_name,
                                      filter_by_app_name, f, _app_name)
       IN IF IsRaise(stored)
          THEN /\ _sources' = _sources
               /\ ret' = stored
          ELSE /\ _sources' = SourcesAfterAdd(_sources, stored)
               /\ ret' = Self
    /\ call' = [op |-> "add",
                args |-> <<config, strip_app_name, filter_by_app_name, f>>]
    /\ UNCHANGED <<ctor, _app_name, _dict_boundary>>

\* get_merged_config()
get_merged_config ==
    /\ ret' = MergedResult(_sources, _dict_boundary)
    /\ call' = [op |-> "get_merged_config", args |-> <<>>]
    /\ UNCHANGED <<ctor, _app_name, _dict_boundary, _sources>>

Add == \E in \in AddInputs : add(in[1], in[2], in[3], in[4])

Next == Add \/ get_merged_config

Spec == Init /\ [][Next]_vars

\* ------------------------------------------------------------- claims
Last(s) == s[Len(s)]
Front(s) == SubSeq(s, 1, Len(s) - 1)
Keys(d) == {Entries(d)[i][1] : i \in 1..Len(Entries(d))}
EntrySet(d) == {Entries(d)[i] : i \in 1..Len(Entries(d))}
Underscore == <<"_">>
DoubleUnderscore == <<"_", "_">>

AddReturned == call.op = "add" /\ ret = Self
AddConfig == call.args[1]
AddStrip == call.args[2]
AddFilter == call.args[3]
AddFunc == call.args[4]

\* C8 as stated: the prefix is the lower-cased app name with exactly one
\* trailing underscore (appended only if the name has none), it never ends
\* with a double underscore, and the prefix and the delimiter stay as
\* constructed.
C8_PrefixSingleUnderscore ==
    /\ ~endswith(ctor.app_name, Underscore)
          => _app_name = lower(ctor.app_name) \o Underscore
    /\ endswith(ctor.app_name, Underscore) => _app_name = lower(ctor.app_name)
    /\ endswith(_app_name, Underscore)
    /\ ~endswith(_app_name, DoubleUnderscore)
    /\ _dict_boundary = ctor.dict_boundary

\* C8 amended: the prefix is the lower-cased app name, with one underscore
\* appended exactly when the name does not end with one; it always ends
\* with an underscore, and ends with a double underscore only when the app
\* name itself does; no add or get_merged_config call changes the prefix or
\* the delimiter.
C8_PrefixTrailingUnderscore ==
    /\ ~endswith(ctor.app_name, Underscore)
          => _app_name = lower(ctor.app_name) \o Underscore
    /\ endswith(ctor.app_name, Underscore) => _app_name = lower(ctor.app_name)
    /\ endswith(_app_name, Underscore)
    /\ endswith(_app_name, DoubleUnderscore)
          => endswith(ctor.app_name, DoubleUnderscore)
    /\ _dict_boundary = ctor.dict_boundary

C8_Witness ==
    /\ ctor.app_name = <<"T">>
    /\ _app_name = <<"t", "_">>
    /\ Len(_sources) >= 1
    /\ call.op = "get_merged_config"

\* C6: after add(config, filter_by_app_name=True) the stored source holds
\* exactly entries of the normalised config whose key starts with the
\* app-name prefix: every other entry is discarded, and an entry with the
\* prefix is missing only if its value is falsy.
C6_FilterByAppName ==
    (AddReturned /\ AddFilter /\ ~AddStrip) =>
        LET normalised == walk_recursive(AddFunc, AddConfig)
            stored == Last(_sources)
        IN /\ \A e \in EntrySet(stored) :
                 e \in EntrySet(normalised) /\ startswith(e[1], _app_name)
           /\ \A e \in EntrySet(normalised) :
                 ~startswith(e[1], _app_name) => e[1] \notin Keys(stored)
           /\ \A e \in EntrySet(normalised) :
                 (startswith(e[1], _app_name) /\ e \notin EntrySet(stored))
                     => ~Truthy(e[2])

C6_Witness ==
    /\ AddReturned /\ AddFilter /\ ~AddStrip
    /\ AddConfig = cEnv
    /\ Last(_sources) = Map(<< << <<"t", "_", "a", "_", "_", "b">>, Int(2) >> >>)

\* C7 as stated: add(config, strip_app_name=True) removes one occurrence of
\* the prefix from the start of every top-level key that literally starts
\* with it, leaves every other top-level key unchanged, and changes no value.
C7_StripAppName ==
    (AddReturned /\ AddStrip /\ ~AddFilter) =>
        LET normalised == walk_recursive(AddFunc, AddConfig)
            stored == Last(_sources)
            Stripped(k) == IF startswith(k, _app_name)
                           THEN SubSeq(k, Len(_app_name) + 1, Len(k))
                           ELSE k
        IN /\ Keys(stored) = {Stripped(k) : k \in Keys(normalised)}
           /\ \A e \in EntrySet(normalised) :
                 <<Stripped(e[1]), e[2]>> \in EntrySet(stored)

\* C10 as stated: every key of a source stored by add with the default key
\* normalisation function, at the top level and in every nested mapping, is
\* lower-case, has no hyphen and does not start with an underscore.
IsNormalisedKey(k) ==
    /\ lower(k) = k
    /\ \A i \in 1..Len(k) : k[i] # "-"
    /\ ~startswith(k, Underscore)

RECURSIVE AllKeysNormalised(_)
AllKeysNormalised(x) ==
    IF isdict(x)
    THEN \A i \in 1..Len(Entries(x)) :
            IsNormalisedKey(Entries(x)[i][1]) /\ AllKeysNormalised(Entries(x)[i][2])
    ELSE IF islist(x)
         THEN \A i \in 1..Len(Items(x)) : AllKeysNormalised(Items(x)[i])
         ELSE TRUE

C10_StoredKeysNormalised ==
    (AddReturned /\ AddFunc = "default") => AllKeysNormalised(Last(_sources))

\* C4 as stated: get_merged_config never raises and always returns a
\* mapping, the empty mapping when there are no sources.
C4_NeverFails ==
    call.op = "get_merged_config" =>
        /\ isdict(ret)
        /\ _sources = <<>> => ret = EmptyDict

\* the left-to-right fold of dict_merge, written from the last source back
RECURSIVE LeftFold(_, _)
LeftFold(sources, dict_boundary) ==
    IF sources = <<>> THEN EmptyDict
    ELSE LET acc == LeftFold(Front(sources), dict_boundary)
         IN IF IsRaise(acc) THEN acc
            ELSE dict_merge(acc, Last(sources), dict_boundary)

NonEmptySegments(k, dict_boundary) ==
    SelectSeq(split(k, dict_boundary), LAMBDA seg : seg # <<>>)

IsPathKey(k, dict_boundary) == Len(split(k, dict_boundary)) > 1
IsPrefixOf(q, p) == Len(q) <= Len(p) /\ SubSeq(p, 1, Len(q)) = q
Comparable(q, p) == IsPrefixOf(q, p) \/ IsPrefixOf(p, q)
IsLeafValue(v) == v[1] \in {"str", "int", "list"}
Missing == <<"missing">>
Max(S) == CHOOSE x \in S : \A y \in S : x >= y

\* x[p[1]][p[2]]..., Missing when the path leaves the mappings
RECURSIVE Lookup(_, _)
Lookup(x, p) ==
    IF p = <<>> THEN x
    ELSE IF isdict(x) /\ HasKey(x, p[1])
         THEN Lookup(GetItem(x, p[1]), Tail(p))
         ELSE Missing

\* the entries of mapping m whose key addresses p, a prefix of p or a path
\* through p
Addressing(m, p, dict_boundary) ==
    {i \in 1..Len(Entries(m)) :
        Comparable(NonEmptySegments(Entries(m)[i][1], dict_boundary), p)}

\* m assigns a scalar or sequence to p as nested plain-key mappings, and at
\* no level is there another key addressing p
RECURSIVE AssignsNested(_, _, _)
AssignsNested(m, p, dict_boundary) ==
    /\ isdict(m)
    /\ \E i \in 1..Len(Entries(m)) :
          /\ Addressing(m, p, dict_boundary) = {i}
          /\ Entries(m)[i][1] = p[1]
          /\ ~IsPathKey(p[1], dict_boundary)
          /\ IF Len(p) = 1 THEN IsLeafValue(Entries(m)[i][2])
             ELSE AssignsNested(Entries(m)[i][2], Tail(p), dict_boundary)

\* m assigns a scalar or sequence to p by one top-level path key, and has
\* no other key addressing p
AssignsByPathKey(m, p, dict_boundary) ==
    \E i \in 1..Len(Entries(m)) :
        /\ Addressing(m, p, dict_boundary) = {i}
        /\ IsPathKey(Entries(m)[i][1], dict_boundary)
        /\ NonEmptySegments(Entries(m)[i][1], dict_boundary) = p
        /\ IsLeafValue(Entries(m)[i][2])

Assigns(m, p, dict_boundary) ==
    AssignsNested(m, p, dict_boundary) \/ AssignsByPathKey(m, p, dict_boundary)

\* the value m gives to p
RECURSIVE AssignedValue(_, _, _)
AssignedValue(m, p, dict_boundary) ==
    LET i == CHOOSE i \in Addressing(m, p, dict_boundary) : TRUE
        v == Entries(m)[i][2]
    IN IF IsPathKey(Entries(m)[i][1], dict_boundary) \/ Len(p) = 1 THEN v
       ELSE AssignedValue(v, Tail(p), dict_boundary)

\* the paths of the scalars and sequences of a source
RECURSIVE LeafPaths(_, _, _)
LeafPaths(m, base, dict_boundary) ==
    UNION { LET k == Entries(m)[i][1]
                v == Entries(m)[i][2]
                q == base \o (IF base = <<>> /\ IsPathKey(k, dict_boundary)
                              THEN NonEmptySegments(k, dict_boundary)
                              ELSE <<k>>)
            IN IF isdict(v) THEN LeafPaths(v, q, dict_boundary) ELSE {q}
          : i \in 1..Len(Entries(m)) }

\* C1 as stated: when two or more sources assign a scalar or sequence to
\* the same leaf path p, as nested plain-key mappings or as a top-level path
\* key, and no source has another key addressing p or a prefix of p, the
\* merged value at p is the value of the last-added of those sources.
C1_LaterSourcesWin ==
    call.op = "get_merged_config" =>
        \A p \in UNION {LeafPaths(_sources[i], <<>>, _dict_boundary)
                        : i \in 1..Len(_sources)} :
            LET assigners == {i \in 1..Len(_sources) :
                                Assigns(_sources[i], p, _dict_boundary)}
            IN (/\ p # <<>>
                /\ Cardinality(assigners) >= 2
                /\ \A i \in (1..Len(_sources)) \ assigners :
                      Addressing(_sources[i], p, _dict_boundary) = {})
               => /\ isdict(ret)
                  /\ Lookup(ret, p)
                     = AssignedValue(_sources[Max(assigners)], p, _dict_boundary)

\* ------------------------------------------- the functions on their own
\* a registry that takes no part in the calls below
Idle ==
    /\ ctor = [app_name |-> <<"T">>, dict_boundary |-> DoubleUnderscore]
    /\ _app_name = InitAppName(ctor.app_name)
    /\ _dict_boundary = ctor.dict_boundary
    /\ _sources = <<>>

Called == ret # Pending

\* the sequences over S of length lo..hi
SeqsOf(S, lo, hi) == UNION {[1..n -> S] : n \in lo..hi}

\* --- walk_recursive(f, data)
MaxListLen == 2

WalkScalars == {Str(<<"X", "-", "y">>), Int(1)}
WalkLists == {List(es) : es \in SeqsOf(WalkScalars, 0, MaxListLen)}
WalkInner == {Map(<< << <<"A">>, v >> >>) : v \in WalkScalars \cup WalkLists}
WalkValues ==
    WalkScalars \cup WalkLists \cup WalkInner \cup {List(<<m>>) : m \in WalkInner}
WalkInputs ==
    {Map(<< << <<"A">>, v >> >>) : v \in WalkValues}
    \cup {Map(<< << <<"A">>, v >>, << <<"-", "b">>, w >> >>) :
            v \in WalkValues, w \in WalkScalars}

InitWalk ==
    /\ Idle
    /\ call \in {[op |-> "walk_recursive", args |-> <<f, data>>] :
                   f \in KeyFuncs, data \in WalkInputs}
    /\ ret = Pending

CallWalk ==
    /\ call.op = "walk_recursive"
    /\ ret = Pending
    /\ ret' = walk_recursive(call.args[1], call.args[2])
    /\ UNCHANGED <<ctor, _app_name, _dict_boundary, _sources, call>>

NextWalk == CallWalk

SpecWalk == InitWalk /\ [][NextWalk]_vars

\* a tree without its keys
RECURSIVE ValuesOnly(_)
ValuesOnly(x) ==
    IF isdict(x)
    THEN <<"map", [i \in 1..Len(Entries(x)) |-> ValuesOnly(Entries(x)[i][2])]>>
    ELSE IF islist(x)
         THEN <<"list", [i \in 1..Len(Items(x)) |-> ValuesOnly(Items(x)[i])]>>
         ELSE x

\* C5 as stated: walk_recursive(f, data) returns a tree of the shape of
\* data in which every scalar, the elements of sequences included, is the
\* scalar of data: f is applied to keys only, and the walk does not raise on
\* a sequence that holds a non-string scalar.
C5_WalkChangesOnlyKeys ==
    (call.op = "walk_recursive" /\ Called) =>
        /\ ~IsRaise(ret)
        /\ ValuesOnly(ret) = ValuesOnly(call.args[2])

\* --- dict_merge({}, {K: v}, D) for a path key K
MaxSegments == 3
MaxExtraDelimiters == 1

Delimiters == {DoubleUnderscore, <<".">>, Underscore}
PathSegments ==
    {<<"a">>, <<"b">>, <<"a", "_">>, <<"_", "b">>, <<"a", "_", "b">>}
PathValues ==
    {Int(1), Int(0), List(<<Int(1)>>), EmptyDict,
     Map(<< << <<"a", "_", "_", "b">>, Int(1) >> >>)}

Contains(s, sep) == Occurrences(s, sep) # {}

RECURSIVE Repeat(_, _)
Repeat(s, n) == IF n = 0 THEN <<>> ELSE s \o Repeat(s, n - 1)

RECURSIVE Join(_, _)
Join(segs, sep) ==
    IF Len(segs) = 1 THEN segs[1] ELSE segs[1] \o sep \o Join(Tail(segs), sep)

PathKey(segs, lead, trail, sep) ==
    Repeat(sep, lead) \o Join(segs, sep) \o Repeat(sep, trail)

\* {s1: {s2: ... {sn: v}}}
RECURSIVE NestedMapping(_, _)
NestedMapping(segs, v) ==
    IF Len(segs) = 1 THEN Map(<< <<segs[1], v>> >>)
    ELSE Map(<< <<segs[1], NestedMapping(Tail(segs), v)>> >>)

InitPathKey ==
    /\ Idle
    /\ call \in {[op |-> "dict_merge_path_key",
                  args |-> <<segs, lead, trail, v, sep>>] :
                   segs \in SeqsOf(PathSegments, 2, MaxSegments),
                   lead \in 0..MaxExtraDelimiters,
                   trail \in 0..MaxExtraDelimiters,
                   v \in PathValues,
                   sep \in Delimiters}
    /\ \A i \in 1..Len(call.args[1]) : ~Contains(call.args[1][i], call.args[5])
    /\ ret = Pending

CallPathKey ==
    /\ call.op = "dict_merge_path_key"
    /\ ret = Pending
    /\ LET K == PathKey(call.args[1], call.args[2], call.args[3], call.args[5])
       IN ret' = dict_merge(EmptyDict, Map(<< <<K, call.args[4]>> >>), call.args[5])
    /\ UNCHANGED <<ctor, _app_name, _dict_boundary, _sources, call>>

NextPathKey == CallPathKey

SpecPathKey == InitPathKey /\ [][NextPathKey]_vars

\* every key of a tree, at every depth
RECURSIVE AllKeys(_)
AllKeys(x) ==
    IF isdict(x)
    THEN Keys(x) \cup UNION {AllKeys(Entries(x)[i][2]) : i \in 1..Len(Entries(x))}
    ELSE IF islist(x)
         THEN UNION {AllKeys(Items(x)[i]) : i \in 1..Len(Items(x))}
         ELSE {}

\* the keys met on the way down the first n levels of a single branch
RECURSIVE KeysAlong(_, _)
KeysAlong(x, n) ==
    IF n = 0 \/ ~isdict(x) \/ Len(Entries(x)) # 1 THEN <<>>
    ELSE <<Entries(x)[1][1]>> \o KeysAlong(Entries(x)[1][2], n - 1)

\* a delimiter of several characters is told apart from the segments when
\* no segment begins or ends with one of its characters
Separable(segs, sep) ==
    \/ Len(sep) = 1
    \/ \A i \in 1..Len(segs) : \A j \in 1..Len(sep) :
          segs[i][1] # sep[j] /\ segs[i][Len(segs[i])] # sep[j]

\* the result is {s1: {... {sn: v}}} and none of its keys s1..sn contains D
PathKeyExpanded ==
    /\ ret = NestedMapping(call.args[1], call.args[4])
    /\ KeysAlong(ret, Len(call.args[1])) = call.args[1]
    /\ \A i \in 1..Len(call.args[1]) :
          ~Contains(KeysAlong(ret, Len(call.args[1]))[i], call.args[5])

\* C2 as stated: for n >= 2 non-empty segments without D, the key
\* s1 D ... D sn, with or without leading and trailing D, merged into {}
\* gives exactly {s1: {... {sn: v}}}, in which no key contains D.
C2_PathKeyExpansion ==
    (call.op = "dict_merge_path_key" /\ Called) => PathKeyExpanded

\* C2 amended: the same for segments that, when D has more than one
\* character, neither begin nor end with a character of D.
C2_PathKeyExpansionSeparable ==
    (call.op = "dict_merge_path_key" /\ Called
        /\ Separable(call.args[1], call.args[5])) => PathKeyExpanded

C2_Witness ==
    /\ call.op = "dict_merge_path_key" /\ Called
    /\ call.args[1] = << <<"a", "_", "b">>, <<"b">>, <<"a">> >>
    /\ call.args[2] = 1 /\ call.args[3] = 1
    /\ call.args[5] = DoubleUnderscore
    /\ ret = NestedMapping(call.args[1], call.args[4])

\* --- dict_merge(base, {K: v}, D) for a key K that addresses a leaf of base
MaxPathLen == 3

\* {'a': {'b': 1, 'x': [1], 'b_c': {'b': 2, 'a': 0}}, 'x': 3}
base1 ==
    Map(<< << <<"a">>,
              Map(<< << <<"b">>, Int(1) >>,
                     << <<"x">>, List(<<Int(1)>>) >>,
                     << <<"b", "_", "c">>,
                        Map(<< << <<"b">>, Int(2) >>, << <<"a">>, Int(0) >> >>) >> >>) >>,
           << <<"x">>, Int(3) >> >>)

\* {'x': 1, 'b': {'x': {'a': 1, 'b': 2}, 'a': 2}, 'a': [1]}
base2 ==
    Map(<< << <<"x">>, Int(1) >>,
           << <<"b">>,
              Map(<< << <<"x">>, Map(<< << <<"a">>, Int(1) >>, << <<"b">>, Int(2) >> >>) >>,
                     << <<"a">>, Int(2) >> >>) >>,
           << <<"a">>, List(<<Int(1)>>) >> >>)

\* {'b_c': 1, 'a': {'a': {'a': 1, 'x': 2}}}
base3 ==
    Map(<< << <<"b", "_", "c">>, Int(1) >>,
           << <<"a">>,
              Map(<< << <<"a">>,
                        Map(<< << <<"a">>, Int(1) >>, << <<"x">>, Int(2) >> >>) >> >>) >> >>)

Bases == {base1, base2, base3}
BaseKeys == {<<"a">>, <<"b">>, <<"x">>, <<"b", "_", "c">>}
OverrideValues == {Int(5), List(<<Int(5)>>), Map(<< << <<"k">>, Int(5) >> >>)}
OverrideForms == {"path_key", "delimited_path_key", "nested"}
OverrideDelimiters == {DoubleUnderscore, <<".">>}

\* the later source: one path key, or the nested mapping, for path p
OverrideSource(p, form, v, sep) ==
    CASE form = "path_key" -> Map(<< <<PathKey(p, 0, 0, sep), v>> >>)
      [] form = "delimited_path_key" -> Map(<< <<PathKey(p, 1, 1, sep), v>> >>)
      [] form = "nested" -> NestedMapping(p, v)

InitOverride ==
    /\ Idle
    /\ call \in {[op |-> "dict_merge_override",
                  args |-> <<base, p, form, v, sep>>] :
                   base \in Bases,
                   p \in SeqsOf(BaseKeys, 1, MaxPathLen),
                   form \in OverrideForms,
                   v \in OverrideValues,
                   sep \in OverrideDelimiters}
    /\ ret = Pending

CallOverride ==
    /\ call.op = "dict_merge_override"
    /\ ret = Pending
    /\ ret' = dict_merge(call.args[1],
                         OverrideSource(call.args[2], call.args[3],
                                        call.args[4], call.args[5]),
                         call.args[5])
    /\ UNCHANGED <<ctor, _app_name, _dict_boundary, _sources, call>>

NextOverride == CallOverride

SpecOverride == InitOverride /\ [][NextOverride]_vars

\* base with the value at path p replaced by v, everything else in place
RECURSIVE ReplaceLeaf(_, _, _)
ReplaceLeaf(base, p, v) ==
    Map([i \in 1..Len(Entries(base)) |->
           IF Entries(base)[i][1] = p[1]
           THEN <<p[1], IF Len(p) = 1 THEN v
                        ELSE ReplaceLeaf(Entries(base)[i][2], Tail(p), v)>>
           ELSE Entries(base)[i]])

\* C3: when the path of the later source's key ends at an existing scalar
\* or sequence of the base and passes through mappings only, the merge is
\* the base with that one value replaced: siblings and key order are kept.
C3_OverrideOnlyLeaf ==
    (call.op = "dict_merge_override" /\ Called
        /\ IsLeafValue(Lookup(call.args[1], call.args[2]))) =>
        ret = ReplaceLeaf(call.args[1], call.args[2], call.args[4])

C3_Witness ==
    /\ call.op = "dict_merge_override" /\ Called
    /\ call.args[1] = base1
    /\ call.args[2] = << <<"a">>, <<"b", "_", "c">>, <<"b">> >>
    /\ call.args[3] = "path_key"
    /\ call.args[5] = DoubleUnderscore
    /\ Lookup(ret, call.args[2]) = call.args[4]
    /\ Lookup(ret, << <<"a">>, <<"b", "_", "c">>, <<"a">> >>) = Int(0)
    /\ ret # call.args[1]

\* --- dict_merge(base, {K1: v1, K2: v2}, D) for two path keys K1, K2
MaxComposeLen == 2

ComposeKeys == {<<"a">>, <<"b">>, <<"x">>}
ComposeBases == Bases \cup {EmptyDict}
ComposeFirstValues == {Int(5), List(<<Int(5)>>)}
ComposeSecondValues == {Int(6)}

\* the incoming mapping, its two path keys in the given iteration order
TwoPathKeys(p1, v1, p2, v2, sep) ==
    Map(<< <<PathKey(p1, 0, 0, sep), v1>>, <<PathKey(p2, 0, 0, sep), v2>> >>)

InitCompose ==
    /\ Idle
    /\ call \in {[op |-> "dict_merge_two_path_keys",
                  args |-> <<base, p1, v1, p2, v2, sep>>] :
                   base \in ComposeBases,
                   p1 \in SeqsOf(ComposeKeys, 2, MaxComposeLen),
                   v1 \in ComposeFirstValues,
                   p2 \in SeqsOf(ComposeKeys, 2, MaxComposeLen),
                   v2 \in ComposeSecondValues,
                   sep \in OverrideDelimiters}
    /\ call.args[2] # call.args[4]
    /\ ret = Pending

CallCompose ==
    /\ call.op = "dict_merge_two_path_keys"
    /\ ret = Pending
    /\ ret' = dict_merge(call.args[1],
                         TwoPathKeys(call.args[2], call.args[3], call.args[4],
                                     call.args[5], call.args[6]),
                         call.args[6])
    /\ UNCHANGED <<ctor, _app_name, _dict_boundary, _sources, call>>

NextCompose == CallCompose

SpecCompose == InitCompose /\ [][NextCompose]_vars

\* a tree without the order of its keys
RECURSIVE Unordered(_)
Unordered(x) ==
    IF isdict(x)
    THEN <<"keys", {<<Entries(x)[i][1], Unordered(Entries(x)[i][2])>>
                    : i \in 1..Len(Entries(x))}>>
    ELSE IF islist(x)
         THEN <<"list", [i \in 1..Len(Items(x)) |-> Unordered(Items(x)[i])]>>
         ELSE x

\* base with v at path p: mappings are made where the path has none, a new
\* key goes after the keys there are, every other entry stays
RECURSIVE WithValueAt(_, _, _)
WithValueAt(base, p, v) ==
    LET sub == IF Len(p) = 1 THEN v
               ELSE WithValueAt(IF HasKey(base, p[1]) /\ isdict(GetItem(base, p[1]))
                                THEN GetItem(base, p[1]) ELSE EmptyDict,
                                Tail(p), v)
    IN IF HasKey(base, p[1])
       THEN Map([i \in 1..Len(Entries(base)) |->
                   IF Entries(base)[i][1] = p[1] THEN <<p[1], sub>>
                   ELSE Entries(base)[i]])
       ELSE Map(Append(Entries(base), <<p[1], sub>>))

\* every value of base on path p, p itself included, is a mapping or absent
MappingsOrAbsent(base, p) ==
    \A n \in 1..Len(p) :
        LET x == Lookup(base, SubSeq(p, 1, n)) IN x = Missing \/ isdict(x)

\* the two paths share their first segment(s), neither is a prefix of the
\* other, and the base has only mappings, or nothing, on them
ComposeCase ==
    /\ call.op = "dict_merge_two_path_keys" /\ Called
    /\ call.args[2][1] = call.args[4][1]
    /\ ~IsPrefixOf(call.args[2], call.args[4])
    /\ ~IsPrefixOf(call.args[4], call.args[2])
    /\ MappingsOrAbsent(call.args[1], call.args[2])
    /\ MappingsOrAbsent(call.args[1], call.args[4])

\* the merge with the two keys iterated in the other order
OtherOrder ==
    dict_merge(call.args[1],
               TwoPathKeys(call.args[4], call.args[5], call.args[2],
                           call.args[3], call.args[6]),
               call.args[6])

\* both values are at their paths, next to the other entries of the base
BothValuesHeld ==
    /\ Lookup(ret, call.args[2]) = call.args[3]
    /\ Lookup(ret, call.args[4]) = call.args[5]
    /\ ret = WithValueAt(WithValueAt(call.args[1], call.args[2], call.args[3]),
                         call.args[4], call.args[5])

\* C11 as stated: two path keys of one incoming mapping with a common
\* prefix and different leaves both end up in the result, with the other
\* entries of the base, and the result is the same whichever of the two keys
\* is iterated first.
C11_PathKeysCompose ==
    ComposeCase => (BothValuesHeld /\ ret = OtherOrder)

\* C11 amended: both values end up at their paths with the other entries of
\* the base, and the two iteration orders give the same keys and values at
\* every level; only the order of the keys may differ.
C11_PathKeysComposeUpToOrder ==
    ComposeCase => (BothValuesHeld /\ Unordered(ret) = Unordered(OtherOrder))

C11_Witness ==
    /\ ComposeCase
    /\ call.args[1] = base3
    /\ call.args[2] = << <<"a">>, <<"b">> >>
    /\ call.args[4] = << <<"a">>, <<"x">> >>
    /\ Lookup(ret, << <<"a">>, <<"a">>, <<"x">> >>) = Int(2)
    /\ Lookup(ret, << <<"b", "_", "c">> >>) = Int(1)
    /\ ret # OtherOrder

====
